---- MODULE Spec2Model ----
(***************************************************************************)
(* Vegetation analysis (Gucchyon/vegetation-analysis): the analysis engine  *)
(* of the VegetationAnalysis component -- calculateOtsuThreshold,           *)
(* normalizeRGB, processImage, downloadCSV -- and the asynchronous handlers *)
(* handleImageUpload / processBatchImages that drive it.                    *)
(*                                                                         *)
(* JavaScript numbers are modelled as exact extended rationals [n, d] in    *)
(* lowest terms with d >= 0: d = 0 stands for NaN (n = 0) and +/-Infinity   *)
(* (n = +/-1). IEEE-754 rounding is not modelled.                           *)
(***************************************************************************)
EXTENDS Integers, Sequences, FiniteSets, TLC

VARIABLES
    threshold,        \* useState(0.2): the fixed ExG threshold, a number
    thresholdMethod,  \* useState('otsu'): "otsu" | "exg"
    selectedIndices,  \* useState({key: true}): key -> BOOLEAN
    isProcessing,     \* useState(false)
    batchFiles,       \* useState([]): the files chosen for the batch
    analysisResult,   \* useState(null): the last single-image AnalysisResult
    originalImage,    \* useState(null): the src of the last single image loaded
    processedImage,   \* useState(null): the binary mask last put on the canvas
    runs,             \* the asynchronous handler invocations in flight
    downloaded,       \* what downloadCSV was last called with
    alerts,           \* the last alert() shown
    events,           \* how many user events have happened
    image,            \* engine harness: the image handed to the engine
    engineOut,        \* engine harness: what processImage produced for image
    otsuOut,          \* engine harness: calculateOtsuThreshold(image.data)
    pixel,            \* pixel harness: one RGB pixel
    pixelOut          \* pixel harness: its normalized RGB, ExG and histogram bin

vars == <<threshold, thresholdMethod, selectedIndices, isProcessing, batchFiles,
          analysisResult, originalImage, processedImage, runs, downloaded,
          alerts, events, image, engineOut, otsuOut, pixel, pixelOut>>

uiVars == <<isProcessing, batchFiles, analysisResult, originalImage,
            processedImage, runs, downloaded, alerts, events>>
controlVars == <<threshold, thresholdMethod, selectedIndices>>
engineVars == <<image, engineOut, otsuOut>>
pixelVars == <<pixel, pixelOut>>

\* null: no value yet
None == [status |-> "none"]

-----------------------------------------------------------------------------
(* Bounds of the model *)

MaxPixels == 2    \* images have at most this many pixels
MaxHeight == 1    \* and at most this many rows
MaxBuffer == 3    \* pixel buffers handed to calculateOtsuThreshold alone
MaxEvents == 3    \* user events (control changes, selections, starts) per behaviour

(* Program constants *)

HistogramSize == 256   \* new Array(256)
ExgOffset == 510       \* (2g - r - b) + 510, and (threshold * 4 - 510) / 510
ExgScale == 4          \* ... / 4, threshold * 4

-----------------------------------------------------------------------------
(* JavaScript number arithmetic *)

Abs(x) == IF x < 0 THEN -x ELSE x
Sign(x) == IF x < 0 THEN -1 ELSE IF x > 0 THEN 1 ELSE 0

Gcd[a \in Nat, b \in Nat] == IF b = 0 THEN a ELSE Gcd[b, a % b]

Num(n, d) ==
    IF d = 0 THEN [n |-> Sign(n), d |-> 0]
    ELSE LET s == Sign(d)
             k == Gcd[Abs(n), Abs(d)]
         IN [n |-> (s * n) \div k, d |-> (s * d) \div k]

Lit(i) == [n |-> i, d |-> 1]
NaN == [n |-> 0, d |-> 0]
IsNaN(x) == x.d = 0 /\ x.n = 0
IsFinite(x) == x.d > 0

Neg(x) == [n |-> 0 - x.n, d |-> x.d]
Add(x, y) ==
    IF x.d = 0 /\ y.d = 0 THEN (IF x.n = y.n THEN x ELSE NaN)
    ELSE Num(x.n * y.d + y.n * x.d, x.d * y.d)
Sub(x, y) == Add(x, Neg(y))
Mul(x, y) == Num(x.n * y.n, x.d * y.d)
Div(x, y) ==
    IF y.n < 0 THEN Num(0 - (x.n * y.d), x.d * (0 - y.n))
    ELSE Num(x.n * y.d, x.d * y.n)
Geq(x, y) == ~IsNaN(x) /\ ~IsNaN(y) /\ x.n * y.d >= y.n * x.d
Gt(x, y) == ~IsNaN(x) /\ ~IsNaN(y) /\ x.n * y.d > y.n * x.d

(* Math.round: the nearest integer, halves rounded up; x is a finite number *)
MathRound(x) == (2 * x.n + x.d) \div (2 * x.d)

-----------------------------------------------------------------------------
(* ALGORITHMS: the registry of index formulas. Three of the sixteen entries *)
(* are modelled: one guarded ratio, ExG, and one unguarded ratio (0/0).     *)

AlgorithmKeys == <<"NGI", "ExG", "MGRVI">>
KeySet == {AlgorithmKeys[i] : i \in DOMAIN AlgorithmKeys}

calculate(key, r, g, b) ==
    CASE key = "NGI" ->
           LET total == Add(Add(r, g), b)
           IN IF Gt(total, Lit(0)) THEN Div(g, total) ELSE Lit(0)
      [] key = "ExG" -> Sub(Sub(Mul(Lit(2), g), r), b)
      [] key = "MGRVI" ->
           LET g2 == Mul(g, g)
               r2 == Mul(r, r)
           IN Div(Sub(g2, r2), Add(g2, r2))

-----------------------------------------------------------------------------
(* Pixels and pixel buffers: the RGB triples of ImageData, alpha left out *)

\* black, pure green, magenta, two strongly green pixels, a reddish pixel
Palette == {<<0, 0, 0>>, <<0, 255, 0>>, <<255, 0, 255>>,
            <<1, 10, 0>>, <<1, 2, 0>>, <<2, 1, 1>>}

\* the buffers of n pixels
SeqsOfLen(S, n) == [1..n -> S]

\* the buffers of at most MaxBuffer pixels
Buffers == UNION {SeqsOfLen(Palette, n) : n \in 0..MaxBuffer}

-----------------------------------------------------------------------------
(* calculateOtsuThreshold *)

HistogramBinMutant(px) ==
    MathRound(Div(Lit(2 * px[2] - px[1] - px[3]), Lit(ExgScale)))
\* the histogram bin of one pixel
histogramBin(px) ==
    MathRound(Div(Lit((2 * px[2] - px[1] - px[3]) + ExgOffset), Lit(ExgScale)))

\* const histogram = new Array(256).fill(0), then histogram[Math.round(exg)]++
\* for every pixel of the buffer
buildHistogram(data) ==
    [bin \in 0..(HistogramSize - 1) |->
        Cardinality({i \in DOMAIN data : histogramBin(data[i]) = bin})]

\* histogram.reduce((acc, val, idx) => acc + weight(idx) * val, 0): the sum
\* over the indices, split in halves (addition is associative)
histogramReduce(histogram, weighted) ==
    LET part[lo \in 0..(HistogramSize - 1), hi \in 0..(HistogramSize - 1)] ==
            IF lo = hi THEN (IF weighted THEN lo ELSE 1) * histogram[lo]
            ELSE LET mid == (lo + hi) \div 2
                 IN part[lo, mid] + part[mid + 1, hi]
    IN part[0, HistogramSize - 1]

OtsuVarianceGreaterMutant(variance, maxVar) == Geq(variance, maxVar)
\* if (variance > maxVar)
OtsuVarianceGreater(variance, maxVar) == Gt(variance, maxVar)

\* one iteration of for (let t = 0; t < 256; t++) on the loop's variables
\* st = [sumB, wB, maxVar, threshold, done]; done: the loop has hit `break`
otsuStep(histogram, total, sum, t, st) ==
    IF st.done THEN st
    ELSE LET wB == st.wB + histogram[t]
             wF == total - wB
         IN IF wB = 0 THEN st
            ELSE IF wF = 0 THEN [st EXCEPT !.wB = wB, !.done = TRUE]
            ELSE LET sumB == st.sumB + t * histogram[t]
                     mB == Div(Lit(sumB), Lit(wB))
                     mF == Div(Lit(sum - sumB), Lit(wF))
                     variance == Mul(Lit(wB * wF), Mul(Sub(mB, mF), Sub(mB, mF)))
                     better == OtsuVarianceGreater(variance, st.maxVar)
                 IN [sumB |-> sumB, wB |-> wB,
                     maxVar |-> IF better THEN variance ELSE st.maxVar,
                     threshold |-> IF better THEN t ELSE st.threshold,
                     done |-> FALSE]

\* the values the loop's variables take
OtsuStates ==
    [sumB : Nat, wB : Nat, maxVar : [n : Int, d : Nat],
     threshold : 0..(HistogramSize - 1), done : BOOLEAN]

\* the whole loop from the state st: the iterations lo..hi in order are the
\* iterations lo..mid followed by the iterations mid+1..hi
otsuLoop(histogram, total, sum, st) ==
    LET iterations[lo \in 0..(HistogramSize - 1), hi \in 0..(HistogramSize - 1),
                   from \in OtsuStates] ==
            IF lo = hi THEN otsuStep(histogram, total, sum, lo, from)
            ELSE LET mid == (lo + hi) \div 2
                     half == iterations[lo, mid, from]
                 IN IF half.done THEN half ELSE iterations[mid + 1, hi, half]
    IN iterations[0, HistogramSize - 1, st]

OtsuInitialMutant ==
    [sumB |-> 0, wB |-> 0, maxVar |-> Lit(0), threshold |-> HistogramSize \div 2,
     done |-> FALSE]
\* let sumB = 0; let wB = 0; let wF = 0; let maxVar = 0; let threshold = 0
otsuInitial ==
    [sumB |-> 0, wB |-> 0, maxVar |-> Lit(0), threshold |-> 0, done |-> FALSE]

\* the bin index `threshold` the loop ends with
otsuBin(data) ==
    LET histogram == buildHistogram(data)
        total == histogramReduce(histogram, FALSE)
        sum == histogramReduce(histogram, TRUE)
    IN otsuLoop(histogram, total, sum, otsuInitial).threshold

OtsuScaleMutant(bin) == Div(Lit(bin * ExgScale - ExgOffset), Lit(ExgOffset \div 2))
\* return (threshold * 4 - 510) / 510
otsuScale(bin) == Div(Lit(bin * ExgScale - ExgOffset), Lit(ExgOffset))

\* calculateOtsuThreshold on every buffer of the model, evaluated once
otsuOfBuffer == [data \in Buffers |-> otsuScale(otsuBin(data))]

calculateOtsuThreshold(data) ==
    IF data \in DOMAIN otsuOfBuffer THEN otsuOfBuffer[data]
    ELSE otsuScale(otsuBin(data))

-----------------------------------------------------------------------------
(* normalizeRGB and processImage *)

NormalizeRGBMutant(r, g, b) ==
    <<Div(Lit(r), Lit(r + g + b)), Div(Lit(g), Lit(r + g + b)),
      Div(Lit(b), Lit(r + g + b))>>
\* const total = r + g + b; if (total === 0) return [0, 0, 0]
normalizeRGB(r, g, b) ==
    LET total == r + g + b
    IN IF total = 0 THEN <<Lit(0), Lit(0), Lit(0)>>
       ELSE <<Div(Lit(r), Lit(total)), Div(Lit(g), Lit(total)), Div(Lit(b), Lit(total))>>

ExgOfMutant(n) == Sub(Mul(Lit(2), Sub(n[2], n[1])), n[3])
\* const exg = 2 * normalizedG - normalizedR - normalizedB
exgOf(n) == Sub(Sub(Mul(Lit(2), n[2]), n[1]), n[3])

IsVegetationMutant(exg, currentThreshold) == Gt(exg, currentThreshold)
\* const isVegetation = exg >= currentThreshold
isVegetation(exg, currentThreshold) == Geq(exg, currentThreshold)

TotalPixelsMutant(width, height) == width + height
\* const totalPixels = canvas.width * canvas.height
totalPixelsOf(width, height) == width * height

\* the keys with selectedIndices[key] true, in Object.keys order
selectedKeys(selected) ==
    SelectSeq(AlgorithmKeys, LAMBDA key : selected[key])
SeqRange(s) == {s[i] : i \in DOMAIN s}

\* vegetationIndices[key] = 0; wholeIndices[key] = 0 for the selected keys
initialSums(selected) == [key \in SeqRange(selectedKeys(selected)) |-> Lit(0)]

RECURSIVE pixelLoop(_, _, _, _, _)
\* for (let i = 0; i < data.length; i += 4) { ... }
pixelLoop(data, i, acc, currentThreshold, selected) ==
    IF i > Len(data) THEN acc
    ELSE LET px == data[i]
             n == normalizeRGB(px[1], px[2], px[3])
             exg == exgOf(n)
             veg == isVegetation(exg, currentThreshold)
             value(key) == calculate(key, n[1], n[2], n[3])
         IN pixelLoop(data, i + 1,
              [vegetationPixels |-> acc.vegetationPixels + (IF veg THEN 1 ELSE 0),
               vegetationMask |-> Append(acc.vegetationMask, veg),
               exg |-> Append(acc.exg, exg),
               wholeIndices |->
                   [key \in DOMAIN acc.wholeIndices |->
                       IF selected[key] THEN Add(acc.wholeIndices[key], value(key))
                       ELSE acc.wholeIndices[key]],
               vegetationIndices |->
                   [key \in DOMAIN acc.vegetationIndices |->
                       IF selected[key] /\ veg
                       THEN Add(acc.vegetationIndices[key], value(key))
                       ELSE acc.vegetationIndices[key]]],
              currentThreshold, selected)

VegetationMeanMutant(sum, vegetationPixels) == Div(sum, Lit(vegetationPixels))
\* vegetationPixels > 0 ? vegetationIndices[key] / vegetationPixels : 0
vegetationMean(sum, vegetationPixels) ==
    IF vegetationPixels > 0 THEN Div(sum, Lit(vegetationPixels)) ELSE Lit(0)

\* wholeIndices[key] /= totalPixels
wholeMean(sum, totalPixels) == Div(sum, Lit(totalPixels))

\* vegetationCoverage: (vegetationPixels / totalPixels) * 100
vegetationCoverageOf(vegetationPixels, totalPixels) ==
    Mul(Div(Lit(vegetationPixels), Lit(totalPixels)), Lit(100))

CurrentThresholdMutant(data, method, fixed) == calculateOtsuThreshold(data)
\* thresholdMethod === 'otsu' ? calculateOtsuThreshold(data) : threshold
currentThresholdOf(data, method, fixed) ==
    IF method = "otsu" THEN calculateOtsuThreshold(data) ELSE fixed

\* the object processImage resolves with, from the sums acc the pixel loop
\* ends with
analysisOf(acc, totalPixels, currentThreshold) ==
    [status |-> "ok",
     currentThreshold |-> currentThreshold,
     vegetationMask |-> acc.vegetationMask,
     exg |-> acc.exg,
     result |->
       [vegetationCoverage |->
            vegetationCoverageOf(acc.vegetationPixels, totalPixels),
        vegetationPixels |-> acc.vegetationPixels,
        totalPixels |-> totalPixels,
        indices |->
          [vegetation |->
              [key \in DOMAIN acc.wholeIndices |->
                  vegetationMean(acc.vegetationIndices[key],
                                 acc.vegetationPixels)],
           whole |->
              [key \in DOMAIN acc.wholeIndices |->
                  wholeMean(acc.wholeIndices[key], totalPixels)]]]]

\* the pixel loop from the initial sums, under the threshold of this call
analyse(data, totalPixels, currentThreshold, selected) ==
    analysisOf(pixelLoop(data, 1,
                   [vegetationPixels |-> 0, vegetationMask |-> <<>>,
                    exg |-> <<>>,
                    wholeIndices |-> initialSums(selected),
                    vegetationIndices |-> initialSums(selected)],
                   currentThreshold, selected),
               totalPixels, currentThreshold)

-----------------------------------------------------------------------------
(* The inputs: pixels, images, control settings *)

\* what getImageData yields: width * height pixels
Images ==
    UNION {{[width |-> w, height |-> h, data |-> d] :
                d \in SeqsOfLen(Palette, w * h)} :
           <<w, h>> \in {wh \in (0..MaxPixels) \X (0..MaxHeight) :
                            wh[1] * wh[2] <= MaxPixels}}

\* the slider: min -1, max 1, step 0.01 (values in hundredths)
ThresholdHundredths == {-100, 0, 20, 100}
Thresholds == {Num(k, 100) : k \in ThresholdHundredths}
\* useState(0.2)
DefaultThreshold == Num(20, 100)
Methods == {"otsu", "exg"}
\* what the canvas API may do: a zero-area getImageData raises IndexSizeError
CanvasOutcomes(img) ==
    {"ok", "noContext"} \cup
    (IF img.width * img.height = 0 THEN {"throws"} ELSE {})


\* the files the user can pick: two images, a zero-area image, and a file
\* that does not decode (loadImage rejects)
FileA ==
    [name |-> "a.png", decodes |-> TRUE,
     img |-> [width |-> 2, height |-> 1, data |-> <<<<0, 0, 0>>, <<0, 255, 0>>>>]]
FileB ==
    [name |-> "b.png", decodes |-> TRUE,
     img |-> [width |-> 1, height |-> 1, data |-> <<<<1, 10, 0>>>>]]
FileZ ==
    [name |-> "z.png", decodes |-> TRUE,
     img |-> [width |-> 0, height |-> 0, data |-> <<>>]]
FileX ==
    [name |-> "x.png", decodes |-> FALSE,
     img |-> [width |-> 0, height |-> 0, data |-> <<>>]]
Files == {FileA, FileB, FileZ, FileX}

\* a file whose name holds a comma
FileC ==
    [name |-> "c,1.png", decodes |-> TRUE,
     img |-> [width |-> 1, height |-> 1, data |-> <<<<0, 0, 0>>>>]]

\* the analyses of the files' images, computed once (@@ makes the function
\* an explicit table; a function expression alone is evaluated per use)
analysisOfFile ==
    [img \in {f.img : f \in Files \cup {FileC}}, method \in Methods,
     fixed \in Thresholds, selected \in [KeySet -> BOOLEAN] |->
        analyse(img.data, totalPixelsOf(img.width, img.height),
                currentThresholdOf(img.data, method, fixed), selected)] @@ <<>>

(* processImage(img, forBatch). canvas is what the canvas API does for this  *)
(* call: "noContext" when a canvas ref or its 2d context is null (the        *)
(* function returns null), "throws" when drawImage/getImageData raises (the  *)
(* returned promise rejects), "ok" when getImageData yields img's pixels.    *)
processImage(img, canvas, method, fixed, selected) ==
    IF canvas = "noContext" THEN [status |-> "null"]
    ELSE IF canvas = "throws" THEN [status |-> "rejected"]
    ELSE IF <<img, method, fixed, selected>> \in DOMAIN analysisOfFile
    THEN analysisOfFile[img, method, fixed, selected]
    ELSE analyse(img.data, totalPixelsOf(img.width, img.height),
                 currentThresholdOf(img.data, method, fixed), selected)

-----------------------------------------------------------------------------
(* Engine harness: processImage and calculateOtsuThreshold applied to every *)
(* image and control setting within the bounds.                             *)

IdleUI ==
    /\ isProcessing = FALSE
    /\ batchFiles = <<>>
    /\ analysisResult = None
    /\ originalImage = None
    /\ processedImage = None
    /\ runs = <<>>
    /\ downloaded = None
    /\ alerts = None
    /\ events = 0

InitEngine ==
    /\ IdleUI
    /\ thresholdMethod \in Methods
    /\ threshold \in (IF thresholdMethod = "otsu" THEN {DefaultThreshold}
                       ELSE Thresholds)
    /\ selectedIndices \in [KeySet -> BOOLEAN]
    /\ image \in Images
    /\ engineOut = None
    /\ otsuOut = None
    /\ pixel = None
    /\ pixelOut = None

EngineProcess ==
    /\ engineOut = None
    /\ \E canvas \in CanvasOutcomes(image) :
         engineOut' = processImage(image, canvas, thresholdMethod, threshold,
                                   selectedIndices)
    /\ UNCHANGED <<uiVars, controlVars, image, otsuOut, pixelVars>>

NextEngine == EngineProcess

SpecEngine == InitEngine /\ [][NextEngine]_vars

-----------------------------------------------------------------------------
(* Otsu harness: calculateOtsuThreshold applied to every pixel buffer of at *)
(* most MaxBuffer pixels.                                                    *)

DefaultControls ==
    /\ threshold = DefaultThreshold
    /\ thresholdMethod = "otsu"
    /\ selectedIndices = [key \in KeySet |-> TRUE]

InitOtsu ==
    /\ IdleUI
    /\ DefaultControls
    /\ \E data \in Buffers :
         image = [width |-> Len(data), height |-> 1, data |-> data]
    /\ engineOut = None
    /\ otsuOut = None
    /\ pixel = None
    /\ pixelOut = None

EngineOtsu ==
    /\ otsuOut = None
    /\ otsuOut' = [status |-> "ok", threshold |-> calculateOtsuThreshold(image.data)]
    /\ UNCHANGED <<uiVars, controlVars, image, engineOut, pixelVars>>

NextOtsu == EngineOtsu

SpecOtsu == InitOtsu /\ [][NextOtsu]_vars

-----------------------------------------------------------------------------
(* Pixel harness: the per-pixel arithmetic of processImage and of the       *)
(* histogram, applied to pixels over the extreme and middle channel values. *)

ChannelLevels == {0, 1, 2, 127, 128, 254, 255}

InitPixel ==
    /\ IdleUI
    /\ DefaultControls
    /\ image = None
    /\ engineOut = None
    /\ otsuOut = None
    /\ \E px \in ChannelLevels \X ChannelLevels \X ChannelLevels :
         pixel = [status |-> "ok", rgb |-> px]
    /\ pixelOut = None

PixelEval ==
    /\ pixelOut = None
    /\ LET px == pixel.rgb
           n == normalizeRGB(px[1], px[2], px[3])
       IN pixelOut' = [status |-> "ok", normalized |-> n, exg |-> exgOf(n),
                       bin |-> histogramBin(px)]
    /\ UNCHANGED <<uiVars, controlVars, engineVars, pixel>>

NextPixel == PixelEval

SpecPixel == InitPixel /\ [][NextPixel]_vars

-----------------------------------------------------------------------------
(* The component: controls, uploads and the asynchronous handlers.          *)
(* A handler invocation is a run; it reads the state of the render it was   *)
(* created in (thresholdMethod, threshold, selectedIndices, batchFiles are  *)
(* constants of that closure) and is suspended at `await loadImage(file)`.  *)

\* the selections of the batch file input
FileLists ==
    {<<>>, <<FileA>>, <<FileA, FileB>>, <<FileB, FileA>>, <<FileA, FileZ>>,
     <<FileA, FileX>>, <<FileX, FileB>>, <<FileC>>}

Init ==
    /\ IdleUI
    /\ DefaultControls
    /\ image = None
    /\ engineOut = None
    /\ otsuOut = None
    /\ pixel = None
    /\ pixelOut = None

Remove(s, r) == [i \in 1..(Len(s) - 1) |-> IF i < r THEN s[i] ELSE s[i + 1]]

newRun(kind, files) ==
    [kind |-> kind, files |-> files, i |-> 1, results |-> <<>>,
     thresholdMethod |-> thresholdMethod, threshold |-> threshold,
     selectedIndices |-> selectedIndices]

\* onMethodChange={setThresholdMethod}
SetThresholdMethod ==
    /\ events < MaxEvents
    /\ \E method \in Methods :
         /\ method # thresholdMethod
         /\ thresholdMethod' = method
    /\ events' = events + 1
    /\ UNCHANGED <<threshold, selectedIndices, isProcessing, batchFiles,
                   analysisResult, originalImage, processedImage, runs,
                   downloaded, alerts, engineVars, pixelVars>>

\* onThresholdChange={setThreshold}: the slider is rendered for 'exg' only
SetThreshold ==
    /\ events < MaxEvents
    /\ thresholdMethod = "exg"
    /\ \E value \in Thresholds :
         /\ value # threshold
         /\ threshold' = value
    /\ events' = events + 1
    /\ UNCHANGED <<thresholdMethod, selectedIndices, isProcessing, batchFiles,
                   analysisResult, originalImage, processedImage, runs,
                   downloaded, alerts, engineVars, pixelVars>>

\* onSelect({...selectedIndices, [key]: e.target.checked})
SetSelectedIndices ==
    /\ events < MaxEvents
    /\ \E key \in KeySet :
         selectedIndices' = [selectedIndices EXCEPT ![key] = ~@]
    /\ events' = events + 1
    /\ UNCHANGED <<threshold, thresholdMethod, isProcessing, batchFiles,
                   analysisResult, originalImage, processedImage, runs,
                   downloaded, alerts, engineVars, pixelVars>>

\* handleBatchUpload: setBatchFiles(Array.from(event.target.files || []))
HandleBatchUpload ==
    /\ events < MaxEvents
    /\ \E files \in FileLists : batchFiles' = files
    /\ events' = events + 1
    /\ UNCHANGED <<controlVars, isProcessing, analysisResult, originalImage,
                   processedImage, runs, downloaded, alerts, engineVars,
                   pixelVars>>

\* processBatchImages up to its first await; the button is
\* disabled={isProcessing || batchFiles.length === 0}
ProcessBatchImages ==
    /\ events < MaxEvents
    /\ ~isProcessing
    /\ batchFiles # <<>>
    /\ isProcessing' = TRUE
    /\ runs' = Append(runs, newRun("batch", batchFiles))
    /\ events' = events + 1
    /\ UNCHANGED <<controlVars, batchFiles, analysisResult, originalImage,
                   processedImage, downloaded, alerts, engineVars, pixelVars>>

\* handleImageUpload up to its await; the file input is never disabled
HandleImageUpload ==
    /\ events < MaxEvents
    /\ \E file \in Files :
         runs' = Append(runs, newRun("single", <<file>>))
    /\ isProcessing' = TRUE
    /\ events' = events + 1
    /\ UNCHANGED <<controlVars, batchFiles, analysisResult, originalImage,
                   processedImage, downloaded, alerts, engineVars, pixelVars>>

\* {filename: file.name, ...result}
batchRecord(file, result) ==
    [filename |-> file.name,
     vegetationCoverage |-> result.vegetationCoverage,
     vegetationPixels |-> result.vegetationPixels,
     totalPixels |-> result.totalPixels,
     indices |-> result.indices]

\* if (result) { results.push({...}) }
pushResult(results, file, out) ==
    IF out.status = "ok" THEN Append(results, batchRecord(file, out.result))
    ELSE results

(* CSV text. A string is a sequence of pieces: the separators ',' and '\n', *)
(* chunks of other characters, and formatted numbers.                        *)
Comma == [piece |-> ","]
Newline == [piece |-> "\n"]
Chunk(str) == [piece |-> "chunk", text |-> str]

\* the characters of a file name, cut at its commas
nameText(name) ==
    IF name = "c,1.png" THEN <<Chunk("c"), Comma, Chunk("1.png")>>
    ELSE <<Chunk(name)>>

\* ALGORITHMS[key].name
algorithmName(key) ==
    CASE key = "NGI" -> "Normalized Green Index"
      [] key = "ExG" -> "Excess Green Index"
      [] key = "MGRVI" -> "Modified Green Red Vegetation Index"

\* String(n) of an integer, as Array.prototype.join converts it
numberText(n) == <<[piece |-> "number", value |-> Lit(n)]>>

\* x.toFixed(digits): "NaN", "Infinity", or the nearest multiple of
\* 10^-digits (the larger one of two equally near)
toFixed(x, digits) ==
    IF x.d = 0 THEN <<[piece |-> "toFixed", digits |-> digits, value |-> x]>>
    ELSE <<[piece |-> "toFixed", digits |-> digits,
            value |-> Num(MathRound(Mul(x, Lit(10 ^ digits))), 10 ^ digits)]>>

\* cells.join(sep)
join(cells, sep) ==
    LET upTo[i \in 0..Len(cells)] ==
            IF i = 0 THEN <<>>
            ELSE IF i = 1 THEN cells[1]
            ELSE upTo[i - 1] \o <<sep>> \o cells[i]
    IN upTo[Len(cells)]

\* the header cells
csvHeaders(keys) ==
    <<<<Chunk("Filename")>>, <<Chunk("Total Pixels")>>,
      <<Chunk("Vegetation Pixels")>>, <<Chunk("Vegetation Coverage (%)")>>,
      <<Chunk("Threshold Method")>>, <<Chunk("Threshold Value")>>>>
    \o [i \in DOMAIN keys |-> <<Chunk(algorithmName(keys[i])), Chunk(" (Vegetation)")>>]
    \o [i \in DOMAIN keys |-> <<Chunk(algorithmName(keys[i])), Chunk(" (Whole)")>>]

\* thresholdMethod === 'otsu' ? 'auto' : threshold.toFixed(3)
thresholdCell(method, fixed) ==
    IF method = "otsu" THEN <<Chunk("auto")>> ELSE toFixed(fixed, 3)

\* the cells of the row of one record
csvRow(result, keys, method, fixed) ==
    <<nameText(result.filename), numberText(result.totalPixels),
      numberText(result.vegetationPixels), toFixed(result.vegetationCoverage, 2),
      <<Chunk(method)>>, thresholdCell(method, fixed)>>
    \o [i \in DOMAIN keys |-> toFixed(result.indices.vegetation[keys[i]], 4)]
    \o [i \in DOMAIN keys |-> toFixed(result.indices.whole[keys[i]], 4)]

\* [headers.join(','), ...rows.map(row => row.join(','))].join('\n')
csvContent(results, keys, method, fixed) ==
    join(<<join(csvHeaders(keys), Comma)>>
         \o [i \in DOMAIN results |->
                join(csvRow(results[i], keys, method, fixed), Comma)],
         Newline)

\* downloadCSV reading the controls of the latest render
DownloadCSVMutant(results, run) ==
    [status |-> "ok",
     selectedKeys |-> selectedKeys(selectedIndices),
     thresholdMethod |-> thresholdMethod,
     threshold |-> threshold,
     records |-> results,
     csvContent |-> <<>>,
     batchFiles |-> run.files]

(* downloadCSV(results) in the closure of a run: the selected keys, the     *)
(* threshold cells, the records and the text written. batchFiles is not     *)
(* part of the CSV: it records the file list of the run that made the call. *)
downloadCSV(results, run) ==
    [status |-> "ok",
     selectedKeys |-> selectedKeys(run.selectedIndices),
     thresholdMethod |-> run.thresholdMethod,
     threshold |-> run.threshold,
     records |-> results,
     csvContent |-> csvContent(results, selectedKeys(run.selectedIndices),
                               run.thresholdMethod, run.threshold),
     batchFiles |-> run.files]

BatchAbortsMutant(r) ==
    /\ alerts' = [status |-> "shown", message |-> "batch"]
    /\ downloaded' = downloadCSV(runs[r].results, runs[r])
    /\ isProcessing' = FALSE
    /\ runs' = Remove(runs, r)
    /\ UNCHANGED <<controlVars, batchFiles, analysisResult, originalImage,
                   processedImage, events, engineVars, pixelVars>>
\* catch (error) { alert(t.errors.batch) } finally { setIsProcessing(false) }
BatchAborts(r) ==
    /\ alerts' = [status |-> "shown", message |-> "batch"]
    /\ isProcessing' = FALSE
    /\ runs' = Remove(runs, r)
    /\ UNCHANGED <<controlVars, batchFiles, analysisResult, originalImage,
                   processedImage, downloaded, events, engineVars, pixelVars>>

\* `await loadImage(file)` rejects in a batch run
BatchLoadRejected ==
    \E r \in DOMAIN runs :
        /\ runs[r].kind = "batch"
        /\ ~runs[r].files[runs[r].i].decodes
        /\ BatchAborts(r)

\* `await processImage(img, true)` rejects in a batch run
BatchAnalysisRejected ==
    \E r \in DOMAIN runs :
        LET file == runs[r].files[runs[r].i]
        IN /\ runs[r].kind = "batch"
           /\ file.decodes
           /\ "throws" \in CanvasOutcomes(file.img)
           /\ BatchAborts(r)

\* the image loads and is analysed, and the loop goes on to the next file
BatchImageLoaded ==
    \E r \in DOMAIN runs :
        LET run == runs[r]
            file == run.files[run.i]
        IN /\ run.kind = "batch"
           /\ file.decodes
           /\ run.i < Len(run.files)
           /\ \E canvas \in CanvasOutcomes(file.img) \ {"throws"} :
                LET out == processImage(file.img, canvas, run.thresholdMethod,
                                        run.threshold, run.selectedIndices)
                IN runs' = [runs EXCEPT ![r].i = @ + 1,
                                        ![r].results = pushResult(@, file, out)]
           /\ UNCHANGED <<controlVars, isProcessing, batchFiles, analysisResult,
                          originalImage, processedImage, downloaded, alerts,
                          events, engineVars, pixelVars>>

\* the last image loads and is analysed: downloadCSV(results), then finally
BatchCompletes ==
    \E r \in DOMAIN runs :
        LET run == runs[r]
            file == run.files[run.i]
        IN /\ run.kind = "batch"
           /\ file.decodes
           /\ run.i = Len(run.files)
           /\ \E canvas \in CanvasOutcomes(file.img) \ {"throws"} :
                LET out == processImage(file.img, canvas, run.thresholdMethod,
                                        run.threshold, run.selectedIndices)
                IN downloaded' = downloadCSV(pushResult(run.results, file, out), run)
           /\ isProcessing' = FALSE
           /\ runs' = Remove(runs, r)
           /\ UNCHANGED <<controlVars, batchFiles, analysisResult, originalImage,
                          processedImage, alerts, events, engineVars, pixelVars>>

\* `await loadImage(file)` rejects in handleImageUpload
SingleLoadRejected ==
    \E r \in DOMAIN runs :
        /\ runs[r].kind = "single"
        /\ ~runs[r].files[1].decodes
        /\ alerts' = [status |-> "shown", message |-> "processing"]
        /\ isProcessing' = FALSE
        /\ runs' = Remove(runs, r)
        /\ UNCHANGED <<controlVars, batchFiles, analysisResult, originalImage,
                       processedImage, downloaded, events, engineVars, pixelVars>>

\* setOriginalImage(img.src), then `await processImage(img)` rejects
SingleAnalysisRejected ==
    \E r \in DOMAIN runs :
        LET file == runs[r].files[1]
        IN /\ runs[r].kind = "single"
           /\ file.decodes
           /\ "throws" \in CanvasOutcomes(file.img)
           /\ originalImage' = [status |-> "ok", src |-> file.name]
           /\ alerts' = [status |-> "shown", message |-> "processing"]
           /\ isProcessing' = FALSE
           /\ runs' = Remove(runs, r)
           /\ UNCHANGED <<controlVars, batchFiles, analysisResult,
                          processedImage, downloaded, events, engineVars,
                          pixelVars>>

\* if (!forBatch) { setProcessedImage(...); setAnalysisResult(result) }, not
\* reached when processImage returns null
showAnalysis(out) ==
    IF out.status = "ok"
    THEN /\ processedImage' = [status |-> "ok", mask |-> out.vegetationMask]
         /\ analysisResult' = [status |-> "ok", result |-> out.result]
    ELSE UNCHANGED <<processedImage, analysisResult>>

\* setOriginalImage(img.src); processImage(img) puts the mask on the canvas
\* and sets analysisResult unless it returns null; finally
SingleCompletes ==
    \E r \in DOMAIN runs :
        LET run == runs[r]
            file == run.files[1]
        IN /\ run.kind = "single"
           /\ file.decodes
           /\ originalImage' = [status |-> "ok", src |-> file.name]
           /\ \E canvas \in CanvasOutcomes(file.img) \ {"throws"} :
                showAnalysis(processImage(file.img, canvas, run.thresholdMethod,
                                          run.threshold, run.selectedIndices))
           /\ isProcessing' = FALSE
           /\ runs' = Remove(runs, r)
           /\ UNCHANGED <<controlVars, batchFiles, downloaded, alerts, events,
                          engineVars, pixelVars>>

Next ==
    \/ SetThresholdMethod
    \/ SetThreshold
    \/ SetSelectedIndices
    \/ HandleBatchUpload
    \/ ProcessBatchImages
    \/ HandleImageUpload
    \/ BatchLoadRejected
    \/ BatchAnalysisRejected
    \/ BatchImageLoaded
    \/ BatchCompletes
    \/ SingleLoadRejected
    \/ SingleAnalysisRejected
    \/ SingleCompletes

Spec == Init /\ [][Next]_vars

-----------------------------------------------------------------------------
(* Properties of processImage (checked under SpecEngine) *)

EngineDone == engineOut.status = "ok"
Result == engineOut.result
NumPixels == Len(image.data)

\* the exact ExG of a pixel, (2G - R - B) / (R + G + B) or 0 for black, is at
\* least the number tau: stated on integers, without normalizeRGB
ExgAtLeast(px, tau) ==
    LET total == px[1] + px[2] + px[3]
    IN IF total = 0 THEN 0 >= tau.n
       ELSE (2 * px[2] - px[1] - px[3]) * tau.d >= tau.n * total

VegetationSet == {i \in DOMAIN image.data :
                     ExgAtLeast(image.data[i], engineOut.currentThreshold)}

\* C1: for an image with totalPixels > 0, totalPixels is the number of pixels
\* of the buffer, 0 <= vegetationPixels <= totalPixels and vegetationCoverage
\* is 100 * vegetationPixels / totalPixels, hence within 0..100
C1_ResultCounts ==
    (EngineDone /\ NumPixels > 0) =>
        /\ Result.totalPixels = NumPixels
        /\ 0 <= Result.vegetationPixels
        /\ Result.vegetationPixels <= Result.totalPixels
        /\ Result.vegetationCoverage =
               Num(100 * Result.vegetationPixels, Result.totalPixels)
        /\ Geq(Result.vegetationCoverage, Lit(0))
        /\ Geq(Lit(100), Result.vegetationCoverage)

C1_Witness ==
    /\ EngineDone
    /\ Result.totalPixels = 2
    /\ Result.vegetationPixels = 1
    /\ Result.vegetationCoverage = Lit(50)

IsPureGreen(px) == px[1] = 0 /\ px[2] > 0 /\ px[3] = 0

\* C2: a pixel is counted as vegetation iff its normalized ExG is at least
\* the chosen threshold (equality counts), vegetationPixels is the number of
\* such pixels, and the coverage of a non-empty image is 100 when every pixel
\* is such a pixel, as for an all-pure-green image with a fixed threshold of
\* at most 2/3
C2_VegetationIffExgAtLeastThreshold ==
    EngineDone =>
        /\ \A i \in DOMAIN image.data :
               engineOut.vegetationMask[i] <=> i \in VegetationSet
        /\ Result.vegetationPixels = Cardinality(VegetationSet)
        /\ (NumPixels > 0 /\ VegetationSet = DOMAIN image.data)
               => Result.vegetationCoverage = Lit(100)
        /\ ( /\ NumPixels > 0
             /\ \A i \in DOMAIN image.data : IsPureGreen(image.data[i])
             /\ thresholdMethod = "exg"
             /\ 3 * threshold.n <= 2 * threshold.d )
               => Result.vegetationCoverage = Lit(100)

\* a pixel whose ExG equals the threshold is counted, and another is not
C2_Witness ==
    /\ EngineDone
    /\ NumPixels = 2
    /\ Result.vegetationPixels = 1
    /\ \E i \in DOMAIN image.data :
          /\ engineOut.exg[i] = engineOut.currentThreshold
          /\ engineOut.vegetationMask[i]

FixedThresholdOne == thresholdMethod = "exg" /\ threshold = Lit(1)

GreenDominant(px) == px[2] > 0 /\ px[2] >= 2 * (px[1] + px[3])

RECURSIVE SumOver(_, _, _)
\* the sum of the formula `key` over the pixels of data at the indices idx
SumOver(key, data, idx) ==
    IF idx = {} THEN Lit(0)
    ELSE LET i == CHOOSE j \in idx : \A k \in idx : j <= k
             n == normalizeRGB(data[i][1], data[i][2], data[i][3])
         IN Add(calculate(key, n[1], n[2], n[3]), SumOver(key, data, idx \ {i}))

MaskSet == {i \in DOMAIN image.data : engineOut.vegetationMask[i]}
SelectedSet == {key \in KeySet : selectedIndices[key]}

\* C8: for totalPixels > 0, indices.whole and indices.vegetation hold exactly
\* the selected keys; whole[key] is the sum of the formula over all pixels
\* divided by totalPixels; vegetation[key] is the sum over the vegetation
\* pixels divided by vegetationPixels, or exactly 0 when there are none
C8_IndexMeans ==
    (EngineDone /\ NumPixels > 0) =>
        /\ DOMAIN Result.indices.whole = SelectedSet
        /\ DOMAIN Result.indices.vegetation = SelectedSet
        /\ \A key \in SelectedSet :
             /\ Result.indices.whole[key] =
                    Div(SumOver(key, image.data, DOMAIN image.data),
                        Lit(Result.totalPixels))
             /\ Result.indices.vegetation[key] =
                    IF Result.vegetationPixels = 0 THEN Lit(0)
                    ELSE Div(SumOver(key, image.data, MaskSet),
                             Lit(Result.vegetationPixels))

\* two pixels, one of them vegetation, a proper subset of the keys selected,
\* and a mean that differs between the two populations
C8_Witness ==
    /\ EngineDone
    /\ NumPixels = 2
    /\ Result.vegetationPixels = 1
    /\ SelectedSet = {"NGI", "ExG"}
    /\ Result.indices.whole["ExG"] # Result.indices.vegetation["ExG"]
    /\ IsFinite(Result.indices.whole["NGI"])

IsBlack(px) == px = <<0, 0, 0>>

\* C13: for a pixel with R = G = B = 0, normalizeRGB returns (0, 0, 0) (no
\* 0 / 0), its ExG is 0, and it is classified as vegetation exactly when the
\* threshold of the call is <= 0
C13_BlackPixel ==
    EngineDone =>
        \A i \in DOMAIN image.data :
            IsBlack(image.data[i]) =>
                /\ normalizeRGB(image.data[i][1], image.data[i][2], image.data[i][3])
                       = <<Lit(0), Lit(0), Lit(0)>>
                /\ engineOut.exg[i] = Lit(0)
                /\ engineOut.vegetationMask[i] <=>
                       Geq(Lit(0), engineOut.currentThreshold)

\* a black pixel under the fixed threshold 0 is vegetation (equality counts)
C13_Witness ==
    /\ EngineDone
    /\ \E i \in DOMAIN image.data :
          /\ IsBlack(image.data[i])
          /\ engineOut.currentThreshold = Lit(0)
          /\ engineOut.vegetationMask[i]

ZeroPixels == totalPixelsOf(image.width, image.height) = 0

-----------------------------------------------------------------------------
(* Properties of calculateOtsuThreshold (checked under SpecOtsu) *)

OtsuDone == otsuOut.status = "ok"
BinsOf(data) == {histogramBin(data[i]) : i \in DOMAIN data}

\* histogram mass and bin-index sum of the bins <= t, from the pixels
MassBelow(data, t) == Cardinality({i \in DOMAIN data : histogramBin(data[i]) <= t})
RECURSIVE BinSum(_, _, _)
BinSum(data, i, t) ==
    IF i > Len(data) THEN 0
    ELSE (IF histogramBin(data[i]) <= t THEN histogramBin(data[i]) ELSE 0)
         + BinSum(data, i + 1, t)

\* the split candidates: wB > 0 and wF > 0
Candidates(data) ==
    {t \in 0..(HistogramSize - 1) :
        MassBelow(data, t) > 0 /\ Len(data) - MassBelow(data, t) > 0}

\* wB wF (mB - mF)^2 = (sumB wF - sumF wB)^2 / (wB wF), as numerator and
\* denominator
VarianceAt(data, t) ==
    LET wB == MassBelow(data, t)
        wF == Len(data) - wB
        sumB == BinSum(data, 1, t)
        sumF == BinSum(data, 1, HistogramSize) - sumB
        diff == sumB * wF - sumF * wB
    IN [n |-> diff * diff, d |-> wB * wF]
VarLess(x, y) == x.n * y.d < y.n * x.d

\* t is the smallest candidate of maximal between-class variance
SmallestMaximizer(data, t) ==
    /\ t \in Candidates(data)
    /\ LET vt == VarianceAt(data, t)
       IN \A u \in Candidates(data) :
             LET vu == VarianceAt(data, u)
             IN /\ ~VarLess(vt, vu)
                /\ u < t => VarLess(vu, vt)

\* C4: the threshold is (4t - 510)/510 for the smallest bin index t that
\* maximizes wB wF (mB - mF)^2 over the candidates with wB > 0 and wF > 0
\* (ties keep the earliest t), whenever the buffer has such a candidate
C4_OtsuSmallestMaximizer ==
    (OtsuDone /\ Candidates(image.data) # {}) =>
        \E t \in 0..(HistogramSize - 1) :
            /\ otsuOut.threshold = Num(4 * t - 510, 510)
            /\ SmallestMaximizer(image.data, t)

\* three populated bins: the candidates differ in variance, and the winner
\* is not the first candidate
C4_Witness ==
    /\ OtsuDone
    /\ Cardinality(BinsOf(image.data)) = 3
    /\ \E t \in Candidates(image.data) :
          /\ otsuOut.threshold = Num(4 * t - 510, 510)
          /\ \E u \in Candidates(image.data) :
                u < t /\ VarLess(VarianceAt(image.data, u), VarianceAt(image.data, t))

\* C5 as stated: for an empty buffer the threshold returned is 0
C5_Original_EmptyBufferGivesZero ==
    (OtsuDone /\ image.data = <<>>) => otsuOut.threshold = Lit(0)

\* C5 amended: calculateOtsuThreshold returns a finite number for every
\* buffer, and for an empty buffer it returns -1, the bin index 0 mapped by
\* (4 * 0 - 510) / 510
C5_EmptyBufferGivesMinusOne ==
    OtsuDone =>
        /\ IsFinite(otsuOut.threshold)
        /\ image.data = <<>> => otsuOut.threshold = Lit(-1)

C5_Witness == OtsuDone /\ image.data = <<>> /\ otsuOut.threshold = Lit(-1)

SingleBin(data) == data # <<>> /\ Cardinality(BinsOf(data)) = 1

\* C6 as stated: a buffer whose pixels all fall into one bin gives exactly
\* (4 * bin - 510) / 510
C6_Original_SingleBinRoundTrip ==
    (OtsuDone /\ SingleBin(image.data)) =>
        \A bin \in BinsOf(image.data) :
            otsuOut.threshold = Num(4 * bin - 510, 510)

\* C6 amended: a buffer whose pixels all fall into one bin has no split
\* candidate and gives -1 = (4 * 0 - 510) / 510 whatever the populated bin,
\* which is (4 * bin - 510) / 510 only for bin = 0
C6_SingleBinGivesMinusOne ==
    (OtsuDone /\ SingleBin(image.data)) =>
        /\ Candidates(image.data) = {}
        /\ otsuOut.threshold = Lit(-1)
        /\ \A bin \in BinsOf(image.data) :
              otsuOut.threshold = Num(4 * bin - 510, 510) <=> bin = 0

\* three pixels in one bin other than bin 0
C6_Witness ==
    /\ OtsuDone
    /\ Len(image.data) = 3
    /\ SingleBin(image.data)
    /\ 0 \notin BinsOf(image.data)
    /\ otsuOut.threshold = Lit(-1)

BinRange == 0..(HistogramSize - 1)

\* C14: the histogram bin of every pixel with channels in 0..255 (those of
\* the buffer, and all pixels over the extreme and middle channel values) is
\* an integer in 0..255, and the threshold returned for the buffer lies in
\* [-1, 1]
C14_BinAndThresholdRange ==
    OtsuDone =>
        /\ \A i \in DOMAIN image.data : histogramBin(image.data[i]) \in BinRange
        /\ \A px \in ChannelLevels \X ChannelLevels \X ChannelLevels :
               histogramBin(px) \in BinRange
        /\ Geq(otsuOut.threshold, Lit(-1))
        /\ Geq(Lit(1), otsuOut.threshold)

\* a buffer that populates the two extreme bins, 0 and 255, and a threshold
\* at the lower end of the range
C14_Witness ==
    /\ OtsuDone
    /\ {0, HistogramSize - 1} \subseteq BinsOf(image.data)
    /\ otsuOut.threshold = Lit(-1)

-----------------------------------------------------------------------------
(* Properties of the per-pixel arithmetic (checked under SpecPixel) *)

PixelDone == pixelOut.status = "ok"

\* C7 as stated: the ExG compared against the threshold lies in [-1, 1]
C7_Original_ExgWithinMinusOneAndOne ==
    PixelDone => Geq(pixelOut.exg, Lit(-1)) /\ Geq(Lit(1), pixelOut.exg)

\* C7 amended: the ExG compared against the threshold lies in [-1, 2]; it
\* exceeds 1, the top of the threshold's range, exactly when G > 2 (R + B)
C7_ExgWithinMinusOneAndTwo ==
    PixelDone =>
        /\ Geq(pixelOut.exg, Lit(-1)) /\ Geq(Lit(2), pixelOut.exg)
        /\ Gt(pixelOut.exg, Lit(1)) <=>
               pixel.rgb[2] > 2 * (pixel.rgb[1] + pixel.rgb[3])

\* pure green reaches 2
C7_Witness == PixelDone /\ pixel.rgb = <<0, 255, 0>> /\ pixelOut.exg = Lit(2)

-----------------------------------------------------------------------------
(* Properties of the batch run (checked under Spec) *)

BatchDownloaded == downloaded.status = "ok"

\* C10 as stated: a batch run that completes without error hands downloadCSV
\* one record per file of its batchFiles, in the same order: as many records
\* as files, and record i carries the name of file i
C10_Original_OneRecordPerFile ==
    BatchDownloaded =>
        /\ Len(downloaded.records) = Len(downloaded.batchFiles)
        /\ \A i \in DOMAIN downloaded.records :
               downloaded.records[i].filename = downloaded.batchFiles[i].name

\* a batch of two files completes without an alert and downloads one record,
\* that of the second file: the first was skipped by `if (result)`
C10_Witness ==
    /\ BatchDownloaded
    /\ alerts = None
    /\ Len(downloaded.batchFiles) = 2
    /\ Len(downloaded.records) = 1
    /\ downloaded.records[1].filename = downloaded.batchFiles[2].name

\* a step in which `await loadImage(file)` or `await processImage(img, true)`
\* of a batch run rejects
BatchFailureStep == BatchLoadRejected \/ BatchAnalysisRejected

\* C11: when loading or analysing an image of a batch fails, the run stops
\* at that image (it leaves the runs in flight, so no later file is
\* processed), the batch error is alerted, downloadCSV is not called (what
\* was downloaded before stays as it was), the single-image results are left
\* alone and isProcessing is reset to false; and no CSV ever comes from a run
\* with a file that fails to load
C11_BatchFailureAborts ==
    /\ [][BatchFailureStep =>
            /\ alerts' = [status |-> "shown", message |-> "batch"]
            /\ downloaded' = downloaded
            /\ isProcessing' = FALSE
            /\ Len(runs') = Len(runs) - 1
            /\ \E r \in DOMAIN runs :
                  /\ runs[r].kind = "batch"
                  /\ \A q \in DOMAIN runs' :
                        runs'[q] = runs[IF q < r THEN q ELSE q + 1]
            /\ UNCHANGED <<analysisResult, processedImage, batchFiles>>]_vars
    /\ [](BatchDownloaded =>
             \A i \in DOMAIN downloaded.batchFiles :
                 downloaded.batchFiles[i].decodes)

\* the batch a.png, x.png has aborted at x.png: the record of a.png was
\* computed and no CSV was produced
C11_Witness ==
    /\ batchFiles = <<FileA, FileX>>
    /\ alerts = [status |-> "shown", message |-> "batch"]
    /\ downloaded = None
    /\ runs = <<>>
    /\ ~isProcessing

-----------------------------------------------------------------------------
(* Properties of the CSV text (checked under Spec) *)

\* text.split(sep): the pieces between the separators
Split(text, sep) ==
    LET pos == {i \in DOMAIN text : text[i] = sep}
        n == Cardinality(pos)
        kth(k) == CHOOSE i \in pos : Cardinality({j \in pos : j < i}) = k - 1
    IN [k \in 1..(n + 1) |->
           SubSeq(text, IF k = 1 THEN 1 ELSE kth(k - 1) + 1,
                        IF k = n + 1 THEN Len(text) ELSE kth(k) - 1)]

CsvLines == Split(downloaded.csvContent, Newline)
CsvFields(l) == Split(CsvLines[l], Comma)
CsvKeys == downloaded.selectedKeys

\* the cell is the number x written with `digits` decimals
ShowsNumber(cell, x, digits) ==
    /\ Len(cell) = 1
    /\ cell[1].piece = "toFixed"
    /\ cell[1].digits = digits
    /\ IF x.d = 0 THEN cell[1].value = x
       ELSE LET diff == Sub(cell[1].value, x)
            IN 2 * (10 ^ digits) * Abs(diff.n) <= diff.d

\* the header line and the line of each record have the stated columns
CsvColumns ==
    LET N == Len(CsvKeys)
    IN /\ \A l \in DOMAIN CsvLines : Len(CsvFields(l)) = 6 + 2 * N
       /\ CsvFields(1)[1] = <<Chunk("Filename")>>
       /\ CsvFields(1)[2] = <<Chunk("Total Pixels")>>
       /\ CsvFields(1)[3] = <<Chunk("Vegetation Pixels")>>
       /\ CsvFields(1)[4] = <<Chunk("Vegetation Coverage (%)")>>
       /\ CsvFields(1)[5] = <<Chunk("Threshold Method")>>
       /\ CsvFields(1)[6] = <<Chunk("Threshold Value")>>
       /\ \A k \in 1..N :
             /\ CsvFields(1)[6 + k] =
                    <<Chunk(algorithmName(CsvKeys[k])), Chunk(" (Vegetation)")>>
             /\ CsvFields(1)[6 + N + k] =
                    <<Chunk(algorithmName(CsvKeys[k])), Chunk(" (Whole)")>>
       /\ \A i \in DOMAIN downloaded.records :
             LET rec == downloaded.records[i]
                 row == CsvFields(i + 1)
             IN /\ row[1] = nameText(rec.filename)
                /\ row[2] = <<[piece |-> "number", value |-> Lit(rec.totalPixels)]>>
                /\ row[3] = <<[piece |-> "number", value |-> Lit(rec.vegetationPixels)]>>
                /\ ShowsNumber(row[4], rec.vegetationCoverage, 2)
                /\ row[5] \in {<<Chunk("otsu")>>, <<Chunk("exg")>>}
                /\ row[5] = <<Chunk(downloaded.thresholdMethod)>>
                /\ row[6] = <<Chunk("auto")>> <=> row[5] = <<Chunk("otsu")>>
                /\ row[5] = <<Chunk("exg")>> =>
                       ShowsNumber(row[6], downloaded.threshold, 3)
                /\ \A k \in 1..N :
                      /\ ShowsNumber(row[6 + k], rec.indices.vegetation[CsvKeys[k]], 4)
                      /\ ShowsNumber(row[6 + N + k], rec.indices.whole[CsvKeys[k]], 4)

\* C12 as stated: the CSV has a header line and one line per record in
\* record order, and every line splits on ',' into the 6 + 2N stated columns
C12_Original_CsvLayout ==
    BatchDownloaded =>
        /\ Len(CsvLines) = 1 + Len(downloaded.records)
        /\ CsvColumns

\* the file names of the records hold no comma
CommaFreeNames ==
    \A i \in DOMAIN downloaded.records :
        Comma \notin {nameText(downloaded.records[i].filename)[j] :
                         j \in DOMAIN nameText(downloaded.records[i].filename)}

\* the layout of C12 for records whose file names hold no comma
CsvLayoutOfCommaFreeNames ==
    (BatchDownloaded /\ CommaFreeNames) =>
        /\ Len(CsvLines) = 1 + Len(downloaded.records)
        /\ CsvColumns

\* the record of c,1.png is written as a line of more than 6 + 2N fields
C12_Witness ==
    /\ BatchDownloaded
    /\ Len(downloaded.records) = 1
    /\ downloaded.records[1].filename = "c,1.png"
    /\ Len(CsvLines) = 2
    /\ Len(CsvFields(1)) = 6 + 2 * Len(CsvKeys)
    /\ Len(CsvFields(2)) = 7 + 2 * Len(CsvKeys)

-----------------------------------------------------------------------------
(* Properties of the handlers running together (checked under Spec) *)

\* the batch start button: disabled={isProcessing || batchFiles.length === 0}
BatchButtonEnabled == ~isProcessing /\ batchFiles # <<>>

\* C15 as stated: isProcessing is true whenever a single analysis or a batch
\* run is in flight, and no batch run is in flight that was started while an
\* earlier run was (runs are kept in the order they started)
C15_Original_ProcessingWhileInFlight ==
    /\ runs # <<>> => isProcessing
    /\ \A r \in DOMAIN runs : runs[r].kind = "batch" => r = 1

\* a batch run is waiting for an image while isProcessing is false and the
\* batch button is enabled: a single upload started and finished meanwhile
C15_Witness ==
    /\ \E r \in DOMAIN runs : runs[r].kind = "batch"
    /\ BatchButtonEnabled
    /\ originalImage # None

\* every record is that of a file of the list, analysed with the threshold
\* method, the fixed threshold and the selected keys given, and holds a value
\* for each of these keys
RecordsMatch(records, files, method, fixed, keys) ==
    LET selected == [key \in KeySet |-> key \in SeqRange(keys)]
    IN \A i \in DOMAIN records :
          /\ \E j \in DOMAIN files :
                /\ files[j].name = records[i].filename
                /\ records[i] =
                       batchRecord(files[j],
                                   processImage(files[j].img, "ok", method,
                                                fixed, selected).result)
          /\ \A key \in SeqRange(keys) :
                /\ key \in DOMAIN records[i].indices.vegetation
                /\ key \in DOMAIN records[i].indices.whole

\* C16: the threshold method, fixed threshold and selected keys that
\* downloadCSV writes are those every record of the batch was analysed with,
\* and the records of a run still in flight are analysed with the controls
\* of the render that started it, whatever the controls are by now; every
\* selected key read by downloadCSV is defined in every record
C16_BatchUsesItsOwnControls ==
    /\ BatchDownloaded =>
          RecordsMatch(downloaded.records, downloaded.batchFiles,
                       downloaded.thresholdMethod, downloaded.threshold,
                       downloaded.selectedKeys)
    /\ \A r \in DOMAIN runs :
          runs[r].kind = "batch" =>
              RecordsMatch(runs[r].results, runs[r].files,
                           runs[r].thresholdMethod, runs[r].threshold,
                           selectedKeys(runs[r].selectedIndices))

\* a CSV of the one-pixel black image analysed under Otsu (vegetation) while
\* the controls now say 'exg' with 0.2 (not vegetation)
C16_Witness ==
    /\ BatchDownloaded
    /\ downloaded.thresholdMethod = "otsu"
    /\ thresholdMethod = "exg"
    /\ Len(downloaded.records) = 1
    /\ downloaded.records[1].filename = "c,1.png"
    /\ downloaded.records[1].vegetationPixels = 1

====
